---- MODULE Spec2Model ----
(***************************************************************************)
(* AI-Karaoke-Studio: subtitle timeline synthesis (create_ass_file.py),    *)
(* render coordination (video_processing/main.py, process.py), the         *)
(* timestamp codec, the lyric filters (extract_lyrics/main.py), the timing *)
(* editor (lyrics_timing_editor.py), process_karaoke_subtitles and the     *)
(* background workers of PopupManager.  Each component has its own         *)
(* specification over the shared variables.                                *)
(*                                                                         *)
(* Times are exact integers in milliseconds (5.0 s = 5000).  Python's      *)
(* float arithmetic is modelled as exact decimal arithmetic.               *)
(* ASS text is kept structured: a timestamp is the sequence of its         *)
(* ':'-separated fields, a Dialogue text is a list of lines, each a list   *)
(* of runs, each run a highlight tag \kf and a token.  Non-ASCII glyphs of *)
(* the source are written in ASCII here.                                   *)
(***************************************************************************)
EXTENDS Integers, Sequences, FiniteSets, TLC

VARIABLES
    \* ---- subtitle generation (create_ass_file) ----
    verses,            \* verses_data: sequence of [start, end, words]
    audio_duration,    \* audio_duration argument, ms
    loader_threshold,  \* loader_threshold argument of create_ass_file, ms
    pc,                \* position inside create_ass_file
    i,                 \* scan index of write_scrolling_lyrics_events (0-based)
    events,            \* log of the write_dialogue calls (arguments)
    file,              \* lines of the subtitle document
    \* ---- render (generate_karaoke_video) ----
    vpc,               \* position inside generate_karaoke_video
    video_effect,      \* video_effect argument: "none" or a path
    background_rest,   \* background_rest (argument, then local)
    countdown_video,   \* countdown_video (argument, then local)
    gerisayim,         \* N such that 'gerisayim N.mov' is in /app/gerisayim
    times,             \* result of parse_countdown_times
    audio_dur,         \* extract_audio_duration(audio_path)
    cmd,               \* the "-i" inputs of cmd, in order
    bg_rest_index,     \* bg_rest_index
    filter_chain,      \* the parts of filter_chain that depend on the plan
    validated,         \* media for which validate_file returned True
    result,            \* return value of generate_karaoke_video
    encoder_started,   \* subprocess.run(cmd) has been called
    caller,            \* what process_karaoke_video hands to its caller
    \* ---- timestamp codec ----
    codec_seconds,     \* a time in ms
    codec_text,        \* a timestamp text
    parsed,            \* results of the parsers
    cpc,               \* position of the codec run
    \* ---- lyric filters (extract_lyrics) ----
    segments,          \* the verses handed to the filter pipeline
    filtered,          \* the list as it passes through the filters
    first_output,      \* output of the first run of the pipeline
    fpc,               \* position inside the pipeline
    \* ---- project directory ----
    raw_store,         \* raw_lyrics.json: [exists, data]
    modified_store,    \* modified_lyrics.json: [exists, data]
    \* ---- timing editor (lyrics_timing_editor) ----
    working_dir,       \* the working-directory state of the interface
    lyrics_json,       \* the lyric state of the interface
    table,             \* rows of the timing table
    epc,               \* position of the editor session
    edits,             \* number of edits made to the table
    save_return,       \* what save_timing_changes returned
    \* ---- process_karaoke_subtitles ----
    override,          \* override argument
    spc,               \* position inside process_karaoke_subtitles
    lyrics_file,       \* lyrics_file: which store is loaded
    sub_audio,         \* results of the extract_audio_duration(audio_file) calls
    sub_result,        \* its outcome
    \* ---- PopupManager ----
    threads,           \* the worker threads started so far
    \* ---- AssVisualEditor ----
    server,            \* self.server
    temp_dir,          \* self.temp_dir
    temp_dirs,         \* the temporary directories there are on disk
    alive,             \* number of HTTP servers that are listening
    starts,            \* number of tempfile.mkdtemp calls so far
    apc,               \* position of the caller of the editor object
    edit_return        \* what the last call returned

assVars == <<verses, audio_duration, loader_threshold, pc, i, events, file>>
videoVars == <<vpc, video_effect, background_rest, countdown_video, gerisayim,
               times, audio_dur, cmd, bg_rest_index, filter_chain, validated,
               result>>
procVars == <<encoder_started, caller>>
codecVars == <<codec_seconds, codec_text, parsed, cpc>>
filterVars == <<segments, filtered, first_output, fpc>>
storeVars == <<raw_store, modified_store>>
editorVars == <<working_dir, lyrics_json, table, epc, edits, save_return>>
subVars == <<override, spc, lyrics_file, sub_audio, sub_result>>
workerVars == <<threads>>
visualVars == <<server, temp_dir, temp_dirs, alive, starts, apc, edit_return>>
auxVars == <<codecVars, filterVars, storeVars, editorVars, subVars, workerVars,
             visualVars>>
vars == <<verses, audio_duration, loader_threshold, pc, i, events, file,
          vpc, video_effect, background_rest, countdown_video, gerisayim,
          times, audio_dur, cmd, bg_rest_index, filter_chain, validated,
          result, encoder_started, caller,
          codec_seconds, codec_text, parsed, cpc,
          segments, filtered, first_output, fpc,
          raw_store, modified_store,
          working_dir, lyrics_json, table, epc, edits, save_return,
          override, spc, lyrics_file, sub_audio, sub_result, threads,
          server, temp_dir, temp_dirs, alive, starts, apc, edit_return>>

\* ---------------------------------------------------------------- bounds
MaxVerses == 3
MaxLines == 3

\* ------------------------------------------------------------- constants
title_duration == 4000
LoaderThresholdLocal == 5000
MelodiDelay == 300
LoaderLead == 2000
loader_kf == 200
MinCountdown == 2000
NoKf == 0 - 1
None == <<>>
NoPosition == "None"

\* ------------------------------------------------------------ time codec
\* int(x): truncation toward zero of a quotient n / d (d > 0)
IntDiv(n, d) == IF n >= 0 THEN n \div d ELSE 0 - ((0 - n) \div d)

\* Python's round() of the quotient n / d (n >= 0, d > 0 even): to nearest,
\* ties to even
RoundDiv(n, d) ==
    LET q == n \div d
        r == n % d
    IN IF 2 * r < d THEN q
       ELSE IF 2 * r > d THEN q + 1
       ELSE IF q % 2 = 0 THEN q ELSE q + 1

\* a ':'-separated field of a timestamp text.  ok: float() accepts it;
\* lit: "int" (digits only, int() accepts it too), "decimal" (digits '.'
\* digits), "nan" (the text nan, which float() accepts), "bad" (anything
\* float() rejects, the empty field included)
Field(whole, cs) == [ok |-> TRUE, whole |-> whole, cs |-> cs, lit |-> "decimal"]
IntField(whole) == [ok |-> TRUE, whole |-> whole, cs |-> 0, lit |-> "int"]
NanField == [ok |-> TRUE, whole |-> 0, cs |-> 0, lit |-> "nan"]
BadField == [ok |-> FALSE, whole |-> 0, cs |-> 0, lit |-> "bad"]

\* float('nan'): kept apart from every time (fields are multiples of 10 ms)
NaN == 0 - 1

\* a format_time that keeps one decimal of the seconds
format_time_deciseconds(seconds) ==
    << IntField(seconds \div 3600000),
       IntField((seconds % 3600000) \div 60000),
       Field((seconds % 60000) \div 1000, (((seconds % 1000) * 10) \div 1000) * 10) >>

\* format_time (the second, effective definition): H:MM:SS.CC, truncating
format_time(seconds) ==
    << IntField(seconds \div 3600000),
       IntField((seconds % 3600000) \div 60000),
       Field((seconds % 60000) \div 1000, ((seconds % 1000) * 100) \div 1000) >>

FieldValue(f) == f.whole * 1000 + f.cs * 10

\* parse_ass_time of video_processing/main.py
parse_ass_time(time_str) ==
    IF Len(time_str) = 3 /\ \A k \in 1..3 : time_str[k].ok
    THEN IF \E k \in 1..3 : time_str[k].lit = "nan"
         THEN NaN
         ELSE FieldValue(time_str[1]) * 3600 + FieldValue(time_str[2]) * 60
              + FieldValue(time_str[3])
    ELSE 0

\* parse_ass_time of lyrics_timing_editor.py: int(h), int(m), float(s)
editor_parse_ass_time(time_str) ==
    IF /\ Len(time_str) = 3
       /\ time_str[1].lit = "int" /\ time_str[2].lit = "int"
       /\ time_str[3].ok
    THEN IF time_str[3].lit = "nan"
         THEN NaN
         ELSE time_str[1].whole * 3600000 + time_str[2].whole * 60000
              + FieldValue(time_str[3])
    ELSE 0

\* seconds_to_ass_time of lyrics_timing_editor.py: the seconds field is
\* seconds % 60 formatted with two decimals (rounded, so it can read 60.00)
seconds_to_ass_time(seconds) ==
    LET cs == RoundDiv(seconds % 60000, 10)
    IN << IntField(seconds \div 3600000),
          IntField((seconds % 3600000) \div 60000),
          Field(cs \div 100, cs % 100) >>

\* ------------------------------------------------------------ ASS text
Run(kf, txt) == [kf |-> kf, txt |-> txt]
Plain(txt) == << Run(NoKf, txt) >>
Text(an, lines) == [an |-> an, lines |-> lines]

\* write_dialogue: the position prefix it puts before the text
PositionTag(position) ==
    IF position = "center" THEN "an5"
    ELSE IF position = "lower_center" THEN "an8"
    ELSE ""

\* write_dialogue: the Dialogue line written to the file
DialogueLine(start, end, lines, style, position) ==
    [dialogue |-> TRUE, nparts |-> 10,
     Start |-> format_time(start), End |-> format_time(end),
     Style |-> style, Text |-> Text(PositionTag(position), lines)]

\* a line of the document that does not start with "Dialogue:"
OtherLine ==
    [dialogue |-> FALSE, nparts |-> 1, Start |-> <<>>, End |-> <<>>,
     Style |-> "", Text |-> Text("", <<>>)]

\* the arguments of one write_dialogue call; kind and idx tell which
\* statement of the compositor made the call and at which scan index
Call(kind, idx, start, end, lines, style, position, loader) ==
    [kind |-> kind, idx |-> idx, start |-> start, end |-> end,
     lines |-> lines, style |-> style, position |-> position,
     add_loader |-> loader]

LineOf(c) == DialogueLine(c.start, c.end, c.lines, c.style, c.position)

RECURSIVE MapLines(_)
MapLines(cs) ==
    IF cs = <<>> THEN <<>> ELSE <<LineOf(Head(cs))>> \o MapLines(Tail(cs))

\* ------------------------------------------------------------ verses
Word(w, s, e) == [word |-> w, start |-> s, end |-> e]

\* shapes of a verse: duration and words, relative to the verse's start
VerseShapes ==
    { [dur |-> 1300, words |-> << Word("la", 0, 500), Word("la", 500, 1300) >>],
      [dur |-> 3000, words |-> << Word("na", 0, 1006), Word("na", 1006, 2995) >>],
      [dur |-> 2000, words |-> << Word("Altyazi", 0, 600), Word("M", 600, 1200),
                                  Word(".K.", 1200, 2000) >>] }
GapSet == {0, 2000, 5000, 8000}
FirstStartSet == {0, 1000, 6005, 6500}
DurationSet == {3000, 60000}
ThresholdSet == {5000, 8000}

SentinelPhrase == << "Altyazi", "M", ".K." >>

RECURSIVE ShiftWords(_, _)
ShiftWords(ws, t) ==
    IF ws = <<>> THEN <<>>
    ELSE << Word(Head(ws).word, Head(ws).start + t, Head(ws).end + t) >>
         \o ShiftWords(Tail(ws), t)

RECURSIVE BuildVerses(_, _, _, _)
BuildVerses(t, shapes, gaps, k) ==
    IF k > Len(shapes) THEN <<>>
    ELSE << [start |-> t, end |-> t + shapes[k].dur,
             words |-> ShiftWords(shapes[k].words, t)] >>
         \o (IF k < Len(shapes)
             THEN BuildVerses(t + shapes[k].dur + gaps[k], shapes, gaps, k + 1)
             ELSE <<>>)

\* verses[k] of the Python list (0-based)
V(k) == verses[k + 1]
Gap(k) == V(k + 1).start - V(k).end

\* ------------------------------------------------------------ compositor
\* word_duration_cs = int((word["end"] - word["start"]) * 100)
word_duration_cs(word) == IntDiv((word.end - word.start) * 100, 1000)

RECURSIVE WordRuns(_)
WordRuns(ws) ==
    IF ws = <<>> THEN <<>>
    ELSE << Run(word_duration_cs(Head(ws)), Head(ws).word) >> \o WordRuns(Tail(ws))

LoaderRuns(add_loader) ==
    IF add_loader THEN << Run(loader_kf, ">>>>") >> ELSE <<>>

Max(a, b) == IF a >= b THEN a ELSE b

\* a filler decision that misses the gap that equals the threshold
MelodiCallsStrict(k) ==
    IF k > 0 /\ V(k).start - V(k - 1).end > LoaderThresholdLocal
    THEN << Call("melodi", k, V(k - 1).end + MelodiDelay, V(k).start - MelodiDelay,
                 << Plain("MELODI") >>, "Line2", "center", FALSE) >>
    ELSE <<>>

\* lines 402-413: the MELODI filler written before verse k
MelodiCalls(k) ==
    IF k > 0 /\ V(k).start - V(k - 1).end >= LoaderThresholdLocal
    THEN << Call("melodi", k, V(k - 1).end + MelodiDelay, V(k).start - MelodiDelay,
                 << Plain("MELODI") >>, "Line2", "center", FALSE) >>
    ELSE <<>>

\* a merge decision that measures the gap to the next verse's end
MergeToEnd(k) ==
    k + 1 < Len(verses) /\ V(k + 1).end - V(k).end < LoaderThresholdLocal

\* line 415: the merge decision at scan index k
Merge(k) ==
    k + 1 < Len(verses) /\ V(k + 1).start - V(k).end < LoaderThresholdLocal

\* lines 421-427: loader decision of the merged branch
MergedLoader(k) ==
    IF k = 0 THEN TRUE
    ELSE V(k + 1).start - V(k - 1).end >= LoaderThresholdLocal

\* a loader decision that misses the gap that equals the threshold
SingleLoaderStrict(k) ==
    IF k = 0 THEN TRUE
    ELSE V(k).start - V(k - 1).end > LoaderThresholdLocal

\* lines 473-478: loader decision of the single-verse branch
SingleLoader(k) ==
    IF k = 0 THEN TRUE
    ELSE V(k).start - V(k - 1).end >= LoaderThresholdLocal

\* a displayed start that is not floored at 0
DisplayStartUnfloored(verse, add_loader) ==
    IF add_loader THEN verse.start - LoaderLead ELSE verse.start

\* lines 429-436 and 480-486: displayed start
DisplayStart(verse, add_loader) ==
    IF add_loader THEN Max(0, verse.start - LoaderLead) ELSE verse.start

\* lines 416-464: the merged event of verses k and k+1
MergedCall(k) ==
    Call("merged", k, DisplayStart(V(k), MergedLoader(k)), V(k + 1).end,
         << LoaderRuns(MergedLoader(k)) \o WordRuns(V(k).words),
            WordRuns(V(k + 1).words) >>,
         "Line2", NoPosition, MergedLoader(k))

\* line 471
next_verse_far(k) ==
    (k + 1 >= Len(verses)) \/ (V(k + 1).start - V(k).end >= LoaderThresholdLocal)

\* lines 467-503: verse k alone
SingleCall(k) ==
    Call("single", k, DisplayStart(V(k), SingleLoader(k)), V(k).end,
         << LoaderRuns(SingleLoader(k)) \o WordRuns(V(k).words) >>,
         "Line2", IF next_verse_far(k) THEN "lower_center" ELSE "Line2",
         SingleLoader(k))

\* one iteration of the while loop of write_scrolling_lyrics_events
ScanCalls(k) ==
    MelodiCalls(k) \o (IF Merge(k) THEN << MergedCall(k) >> ELSE << SingleCall(k) >>)

\* a scan that moves on by one verse after a merged event too
ScanAdvanceByOne(k) == k + 1

\* lines 465 and 504: i += 2 after a merged event, i += 1 otherwise
ScanAdvance(k) == IF Merge(k) THEN k + 2 ELSE k + 1

\* ------------------------------------------------------------ trailing event
RECURSIVE JoinWords(_)
JoinWords(ws) ==
    IF ws = <<>> THEN <<>> ELSE << Head(ws).word >> \o JoinWords(Tail(ws))

\* pat in text (on tokens)
Contains(text, pat) ==
    \E o \in 0..(Len(text) - Len(pat)) :
        \A k \in 1..Len(pat) : text[o + k] = pat[k]

ThanksCall(start, end) ==
    Call("thanks", 0 - 1, start, end, << Plain("Tesekkur Ederiz") >>, "Line1", NoPosition, FALSE)

\* an extend_last_event that also writes the trailing event for an empty gap
ExtendCallsInclusive(vs, duration) ==
    IF vs = <<>> THEN << ThanksCall(0, duration) >>
    ELSE IF Contains(JoinWords(vs[Len(vs)].words), SentinelPhrase)
         THEN << ThanksCall(vs[Len(vs)].start, duration) >>
         ELSE IF vs[Len(vs)].end <= duration
              THEN << ThanksCall(vs[Len(vs)].end, duration) >>
              ELSE <<>>

\* extend_last_event
ExtendCalls(vs, duration) ==
    IF vs = <<>> THEN << ThanksCall(0, duration) >>
    ELSE IF Contains(JoinWords(vs[Len(vs)].words), SentinelPhrase)
         THEN << ThanksCall(vs[Len(vs)].start, duration) >>
         ELSE IF vs[Len(vs)].end < duration
              THEN << ThanksCall(vs[Len(vs)].end, duration) >>
              ELSE <<>>

\* a title event that lasts half the title duration
TitleCallHalf ==
    Call("title", 0 - 1, 0, title_duration \div 2, << Plain("artist"), Plain("song_title") >>,
         "Line1", NoPosition, FALSE)

\* write_title_event
TitleCall ==
    Call("title", 0 - 1, 0, title_duration, << Plain("artist"), Plain("song_title") >>,
         "Line1", NoPosition, FALSE)

\* ------------------------------------------------------------ actions: subtitles
\* create_ass_file lines 540-559: open, script info, styles, events header, title
CreateAssFile ==
    /\ pc = "create_ass_file"
    /\ events' = << TitleCall >>
    /\ file' = << OtherLine, OtherLine, OtherLine, LineOf(TitleCall) >>
    /\ i' = 0
    /\ pc' = "scroll"
    /\ UNCHANGED <<verses, audio_duration, loader_threshold>>
    /\ UNCHANGED <<videoVars, procVars, auxVars>>

\* write_scrolling_lyrics_events: one iteration of the scan
ScrollStep ==
    /\ pc = "scroll"
    /\ i < Len(verses)
    /\ events' = events \o ScanCalls(i)
    /\ file' = file \o MapLines(ScanCalls(i))
    /\ i' = ScanAdvance(i)
    /\ UNCHANGED <<verses, audio_duration, loader_threshold, pc>>
    /\ UNCHANGED <<videoVars, procVars, auxVars>>

\* the scan is over; extend_last_event, then the file is closed
ExtendLastEvent ==
    /\ pc = "scroll"
    /\ ~(i < Len(verses))
    /\ events' = events \o ExtendCalls(verses, audio_duration)
    /\ file' = file \o MapLines(ExtendCalls(verses, audio_duration))
    /\ pc' = "written"
    /\ UNCHANGED <<verses, audio_duration, loader_threshold, i>>
    /\ UNCHANGED <<videoVars, procVars, auxVars>>

VideoIdle ==
    /\ vpc = "idle"
    /\ video_effect = None /\ background_rest = None /\ countdown_video = None
    /\ gerisayim = {} /\ times = None /\ audio_dur = None /\ cmd = <<>>
    /\ bg_rest_index = None /\ filter_chain = <<>> /\ validated = {}
    /\ result = None
    /\ encoder_started = FALSE /\ caller = "idle"

CodecIdle == codec_seconds = 0 /\ codec_text = <<>> /\ parsed = <<>> /\ cpc = "idle"
FilterIdle == segments = <<>> /\ filtered = <<>> /\ first_output = <<>> /\ fpc = "idle"
StoreIdle == raw_store = [exists |-> FALSE, data |-> <<>>]
             /\ modified_store = [exists |-> FALSE, data |-> <<>>]
EditorIdle == working_dir = None /\ lyrics_json = None /\ table = <<>>
              /\ epc = "idle" /\ edits = 0 /\ save_return = None
SubIdle == override = TRUE /\ spc = "idle" /\ lyrics_file = None
           /\ sub_audio = None /\ sub_result = None
WorkerIdle == threads = <<>>
VisualIdle ==
    /\ server = None /\ temp_dir = None /\ temp_dirs = {} /\ alive = 0
    /\ starts = 0 /\ apc = "idle" /\ edit_return = None
AuxIdle ==
    /\ CodecIdle /\ FilterIdle /\ StoreIdle /\ EditorIdle /\ SubIdle /\ WorkerIdle
    /\ VisualIdle

InitAss ==
    /\ \E n \in 0..MaxVerses :
         \E shapes \in [1..n -> VerseShapes] :
           \E gaps \in [1..(n - 1) -> GapSet] :
             \E t \in FirstStartSet :
               verses = BuildVerses(t, shapes, gaps, 1)
    /\ audio_duration \in DurationSet
    /\ loader_threshold \in ThresholdSet
    /\ pc = "create_ass_file"
    /\ i = 0
    /\ events = <<>>
    /\ file = <<>>
    /\ VideoIdle
    /\ AuxIdle

NextAss == CreateAssFile \/ ScrollStep \/ ExtendLastEvent

SpecAss == InitAss /\ [][NextAss]_vars

\* ------------------------------------------------------------ properties: compositor
Written == pc = "written"
NVerses == Len(verses)
Lyric(e) == e.kind \in {"merged", "single"}

\* the write_dialogue calls that merged verses k and k+1 (k upper, k+1 lower)
MergedOf(k) ==
    { n \in DOMAIN events :
        /\ events[n].kind = "merged" /\ events[n].idx = k
        /\ events[n].end = V(k + 1).end
        /\ events[n].lines = << LoaderRuns(events[n].add_loader) \o WordRuns(V(k).words),
                                WordRuns(V(k + 1).words) >> }

\* the lyric events that show verse k
EventsOf(k) ==
    { n \in DOMAIN events :
        /\ Lyric(events[n])
        /\ \/ events[n].idx = k
           \/ events[n].kind = "merged" /\ events[n].idx = k - 1 }

FillersOf(k) ==
    { n \in DOMAIN events : events[n].kind = "melodi" /\ events[n].idx = k + 1 }

\* C1 as stated: every pair of consecutive verses whose gap is below the
\* threshold is merged into exactly one event.
C1_Original ==
    Written => \A k \in 0..(NVerses - 2) :
        Gap(k) < LoaderThresholdLocal => Cardinality(MergedOf(k)) = 1

\* C1 amended: a pair of consecutive verses k, k+1 whose gap is below the
\* threshold is merged into exactly one event (k upper, k+1 lower), unless
\* verse k is already the lower line of the event that merged k-1 and k; never
\* both.
C1_MergedUnlessLower ==
    Written => \A k \in 0..(NVerses - 2) :
        Gap(k) < LoaderThresholdLocal =>
            /\ Cardinality(MergedOf(k)) <= 1
            /\ (Cardinality(MergedOf(k)) = 1) # (k > 0 /\ Cardinality(MergedOf(k - 1)) = 1)

C1_Witness ==
    /\ Written /\ NVerses = 3
    /\ Gap(0) < LoaderThresholdLocal /\ Gap(1) < LoaderThresholdLocal
    /\ Cardinality(MergedOf(0)) = 1 /\ MergedOf(1) = {}

\* C2: a pair of consecutive verses whose gap is at least the threshold is
\* shown in separate lyric events with exactly one MELODI filler between
\* them, spanning [end + 0.3, start - 0.3]; a pair whose gap is below the
\* threshold gets no filler.
C2_FillerBetweenFarVerses ==
    Written => \A k \in 0..(NVerses - 2) :
        IF Gap(k) >= LoaderThresholdLocal
        THEN /\ Cardinality(FillersOf(k)) = 1
             /\ Cardinality(EventsOf(k)) = 1 /\ Cardinality(EventsOf(k + 1)) = 1
             /\ \A f \in FillersOf(k), a \in EventsOf(k), b \in EventsOf(k + 1) :
                  /\ a < f /\ f < b
                  /\ events[f].start = V(k).end + 300
                  /\ events[f].end = V(k + 1).start - 300
                  /\ file[f + 3].Start = format_time(V(k).end + 300)
                  /\ file[f + 3].End = format_time(V(k + 1).start - 300)
                  /\ file[f + 3].Text = Text("an5", << Plain("MELODI") >>)
        ELSE FillersOf(k) = {}

C2_Witness ==
    /\ Written /\ NVerses = 3
    /\ Gap(0) < LoaderThresholdLocal /\ Gap(1) >= LoaderThresholdLocal
    /\ Cardinality(MergedOf(0)) = 1 /\ Cardinality(FillersOf(1)) = 1

\* the highlight tags of a word list when each is round((end - start) * 100)
RECURSIVE RoundedRuns(_)
RoundedRuns(ws) ==
    IF ws = <<>> THEN <<>>
    ELSE << Run(RoundDiv(Head(ws).end - Head(ws).start, 10), Head(ws).word) >>
         \o RoundedRuns(Tail(ws))

\* C3: every word's \kf value equals round((word.end - word.start) * 100),
\* in the upper and lower line of a merged event and in a single-verse event.
C3_KfIsRounded ==
    \A n \in DOMAIN events :
        /\ events[n].kind = "merged" =>
             events[n].lines = << LoaderRuns(events[n].add_loader)
                                    \o RoundedRuns(V(events[n].idx).words),
                                  RoundedRuns(V(events[n].idx + 1).words) >>
        /\ events[n].kind = "single" =>
             events[n].lines = << LoaderRuns(events[n].add_loader)
                                    \o RoundedRuns(V(events[n].idx).words) >>

\* C4: the merge, filler and loader decisions are those obtained by comparing
\* the gaps with the loader_threshold argument of create_ass_file.
C4_ThresholdArgumentUsed ==
    \A n \in DOMAIN events :
        LET e == events[n]
            k == e.idx
        IN /\ e.kind = "melodi" => V(k).start - V(k - 1).end >= loader_threshold
           /\ e.kind = "merged" =>
                /\ Gap(k) < loader_threshold
                /\ k > 0 => (e.add_loader <=> V(k + 1).start - V(k - 1).end >= loader_threshold)
           /\ e.kind = "single" =>
                /\ k + 1 < NVerses => Gap(k) >= loader_threshold
                /\ k > 0 => (e.add_loader <=> V(k).start - V(k - 1).end >= loader_threshold)
                /\ k > 0 /\ V(k).start - V(k - 1).end >= loader_threshold
                     => \E m \in DOMAIN events : events[m].kind = "melodi" /\ events[m].idx = k

\* C6: three verses with gap(v1,v2) below and gap(v2,v3) at least the
\* threshold give, in this order and nothing else from the compositor: the
\* merged event of v1+v2, one filler, then v3 alone with a loader in the
\* lower-centered position.
CompositorCalls ==
    SelectSeq(events, LAMBDA e : e.kind \in {"merged", "single", "melodi"})

C6_MergedFillerSingle ==
    (Written /\ NVerses = 3 /\ Gap(0) < LoaderThresholdLocal
       /\ Gap(1) >= LoaderThresholdLocal) =>
        /\ Len(CompositorCalls) = 3
        /\ MergedOf(0) = {2}
        /\ events[3].kind = "melodi"
        /\ events[4].kind = "single" /\ events[4].idx = 2
        /\ events[4].add_loader
        /\ events[4].position = "lower_center"
        /\ events[4].start = Max(0, V(2).start - 2000)
        /\ events[4].end = V(2).end
        /\ Head(events[4].lines[1]) = Run(200, ">>>>")
        /\ file[7].Text.an = "an8"
        /\ \A n \in DOMAIN events : n > 4 => events[n].kind = "thanks"

C6_Witness ==
    /\ Written /\ NVerses = 3 /\ Gap(0) = 2000 /\ Gap(1) = 8000
    /\ Len(CompositorCalls) = 3

LastVerse == verses[NVerses]
LastHasSentinel == Contains(JoinWords(LastVerse.words), SentinelPhrase)
Thanks == { n \in DOMAIN events : events[n].kind = "thanks" }

\* C7: when the last verse's text contains the sentinel phrase, the document
\* has a 'thank you' event [lastVerse.start, audioDuration] and the sentinel
\* verse is not shown as a lyric event.
C7_SentinelVerseReplaced ==
    (Written /\ NVerses > 0 /\ LastHasSentinel) =>
        /\ \E n \in Thanks : /\ events[n].start = LastVerse.start
                             /\ events[n].end = audio_duration
        /\ EventsOf(NVerses - 1) = {}

\* C8: with zero verses exactly one 'thank you' event [0, D] is written and
\* no lyric or filler event; with a last verse without the sentinel exactly
\* one 'thank you' event [lastVerse.end, D] is written if lastVerse.end < D
\* and none otherwise.
C8_TrailingEventSpan ==
    Written =>
        IF NVerses = 0
        THEN /\ CompositorCalls = <<>>
             /\ Cardinality(Thanks) = 1
             /\ \A n \in Thanks : /\ events[n].start = 0
                                  /\ events[n].end = audio_duration
                                  /\ file[n + 3].Start = format_time(0)
                                  /\ file[n + 3].End = format_time(audio_duration)
        ELSE ~LastHasSentinel =>
               IF LastVerse.end < audio_duration
               THEN /\ Cardinality(Thanks) = 1
                    /\ \A n \in Thanks : /\ events[n].start = LastVerse.end
                                         /\ events[n].end = audio_duration
                                         /\ n = Len(events)
                                         /\ file[n + 3].Start = format_time(LastVerse.end)
                                         /\ file[n + 3].End = format_time(audio_duration)
               ELSE Thanks = {}

C8_Witness ==
    /\ Written /\ NVerses > 0 /\ ~LastHasSentinel
    /\ LastVerse.end < audio_duration
    /\ Cardinality(Thanks) = 1

\* ------------------------------------------------------------ render coordinator
\* the Dialogue lines parse_countdown_times looks at: it skips the lines
\* that do not start with "Dialogue:" or split into fewer than 10 parts
RECURSIVE DialogueParts(_)
DialogueParts(doc) ==
    IF doc = <<>> THEN <<>>
    ELSE (IF Head(doc).dialogue /\ ~(Head(doc).nparts < 10)
          THEN << Head(doc) >> ELSE <<>>) \o DialogueParts(Tail(doc))

\* a parse_countdown_times that accepts a second start equal to the first end
parse_countdown_times_ge(doc) ==
    LET d == DialogueParts(doc) IN
    IF Len(d) >= 2 /\ parse_ass_time(d[2].Start) >= parse_ass_time(d[1].End)
    THEN << parse_ass_time(d[1].End), parse_ass_time(d[2].Start) >>
    ELSE None

\* parse_countdown_times
parse_countdown_times(doc) ==
    LET d == DialogueParts(doc) IN
    IF Len(d) >= 2 /\ parse_ass_time(d[2].Start) > parse_ass_time(d[1].End)
    THEN << parse_ass_time(d[1].End), parse_ass_time(d[2].Start) >>
    ELSE None

\* int(round(duration)): duration in ms, result in s
Round(duration) == RoundDiv(duration, 1000)

\* find_countdown_video
find_countdown_video(directory, countdown) ==
    IF countdown \in directory THEN << "gerisayim", countdown >> ELSE None

\* select_countdown_video
select_countdown_video(directory, duration) ==
    find_countdown_video(directory, Round(duration))

\* the outcomes validate_file can have for a path
ValidateOutcomes(path) == IF path = None THEN {FALSE} ELSE BOOLEAN

audio_path == << "karaoke_audio.mp3" >>
ass_path == << "karaoke_subtitles.ass" >>
logo_path == << "osslogo.png" >>
ColorSource == << "lavfi", "color" >>

Step(op, input, duration, offset, from, to) ==
    [op |-> op, input |-> input, duration |-> duration, offset |-> offset,
     from |-> from, to |-> to]

Return(value) ==
    /\ vpc' = "returned"
    /\ result' = value

\* lines 109-115
ValidateInputs ==
    /\ vpc = "validate"
    /\ \E audio_ok \in ValidateOutcomes(audio_path), ass_ok \in ValidateOutcomes(ass_path) :
         IF ~audio_ok
         THEN Return(None) /\ UNCHANGED validated
         ELSE IF ~ass_ok
              THEN Return(None) /\ validated' = validated \cup {audio_path}
              ELSE /\ vpc' = "parse"
                   /\ validated' = validated \cup {audio_path, ass_path}
                   /\ UNCHANGED result
    /\ UNCHANGED <<video_effect, background_rest, countdown_video, gerisayim, times,
                   audio_dur, cmd, bg_rest_index, filter_chain>>
    /\ UNCHANGED <<assVars, procVars, auxVars>>

\* lines 117-133
CountdownVideoAfterParse(t, cv, directory) ==
    IF t = None THEN None
    ELSE IF t[2] - t[1] < MinCountdown THEN None
         ELSE IF cv = None THEN select_countdown_video(directory, t[2] - t[1])
              ELSE cv

ParseCountdown ==
    /\ vpc = "parse"
    /\ times' = parse_countdown_times(file)
    /\ countdown_video' = CountdownVideoAfterParse(times', countdown_video, gerisayim)
    /\ background_rest' = IF times' = None THEN None ELSE background_rest
    /\ vpc' = "duration"
    /\ UNCHANGED <<video_effect, gerisayim, audio_dur, cmd, bg_rest_index,
                   filter_chain, validated, result>>
    /\ UNCHANGED <<assVars, procVars, auxVars>>

\* lines 146-149
AudioDuration ==
    /\ vpc = "duration"
    /\ \E d \in {None, << 60000 >>} :
         /\ audio_dur' = d
         /\ IF d = None THEN Return(None) ELSE vpc' = "inputs" /\ UNCHANGED result
    /\ UNCHANGED <<video_effect, background_rest, countdown_video, gerisayim, times,
                   cmd, bg_rest_index, filter_chain, validated>>
    /\ UNCHANGED <<assVars, procVars, auxVars>>

\* lines 185-190
BgRestIndex(br) == IF br # None THEN 3 ELSE None

\* lines 152-190: the input list
BuildInputs ==
    /\ vpc = "inputs"
    /\ \E ve_ok \in ValidateOutcomes(video_effect),
          br_ok \in ValidateOutcomes(background_rest),
          cd_ok \in ValidateOutcomes(countdown_video) :
         LET background ==
                 IF background_rest # None THEN << video_effect >>
                 ELSE IF video_effect # None THEN << video_effect >>
                      ELSE << ColorSource >>
             bg_fails ==
                 IF background_rest # None THEN ~ve_ok \/ ~br_ok
                 ELSE video_effect # None /\ ~ve_ok
             cd_fails == countdown_video # None /\ ~cd_ok
             checked ==
                 (IF (background_rest # None \/ video_effect # None) /\ ve_ok
                  THEN {video_effect} ELSE {})
                 \cup (IF background_rest # None /\ ve_ok /\ br_ok
                       THEN {background_rest} ELSE {})
                 \cup (IF ~bg_fails /\ countdown_video # None /\ cd_ok
                       THEN {countdown_video} ELSE {})
         IN /\ validated' = validated \cup checked
            /\ IF bg_fails \/ cd_fails
               THEN Return(None) /\ UNCHANGED <<cmd, bg_rest_index>>
               ELSE /\ cmd' = background \o << audio_path >>
                             \o (IF countdown_video # None
                                 THEN << countdown_video >> ELSE <<>>)
                             \o (IF background_rest # None
                                 THEN << background_rest >> ELSE <<>>)
                    /\ bg_rest_index' = BgRestIndex(background_rest)
                    /\ vpc' = "filter"
                    /\ UNCHANGED result
    /\ UNCHANGED <<video_effect, background_rest, countdown_video, gerisayim, times,
                   audio_dur, filter_chain>>
    /\ UNCHANGED <<assVars, procVars, auxVars>>

\* lines 194-209: the background part of the filter graph
BackgroundChain ==
    IF times # None /\ background_rest # None
    THEN << Step("trim", 0, times[2], 0, 0, 0),
            Step("trim", bg_rest_index, audio_dur[1] - times[2], 0, 0, 0),
            Step("concat", 0, 0, 0, 0, 0) >>
    ELSE << Step("scale", 0, 0, 0, 0, 0) >>

\* a countdown overlay whose clip is not shifted to first_end
CountdownChainUnshifted ==
    IF countdown_video # None /\ times # None
    THEN << Step("overlay", 2, 0, 0, times[1], times[2]) >>
    ELSE << Step("copy", 0, 0, 0, 0, 0) >>

\* lines 214-222: the countdown overlay
CountdownChain ==
    IF countdown_video # None /\ times # None
    THEN << Step("overlay", 2, 0, times[1], times[1], times[2]) >>
    ELSE << Step("copy", 0, 0, 0, 0, 0) >>

\* lines 192-222
BuildFilter ==
    /\ vpc = "filter"
    /\ filter_chain' = BackgroundChain \o << Step("subtitles", 0, 0, 0, 0, 0) >>
                       \o CountdownChain
    /\ vpc' = "logo"
    /\ UNCHANGED <<video_effect, background_rest, countdown_video, gerisayim, times,
                   audio_dur, cmd, bg_rest_index, validated, result>>
    /\ UNCHANGED <<assVars, procVars, auxVars>>

\* a logo step that goes on to the encoder whatever validate_file says
AddLogoUnchecked ==
    /\ vpc = "logo"
    /\ \E ok \in ValidateOutcomes(logo_path) :
         /\ cmd' = Append(cmd, logo_path)
         /\ filter_chain' = Append(filter_chain,
                                   Step("logo", Len(cmd') - 1, 0, 0, 0, title_duration))
         /\ validated' = IF ok THEN validated \cup {logo_path} ELSE validated
         /\ vpc' = "encode"
         /\ UNCHANGED result
    /\ UNCHANGED <<video_effect, background_rest, countdown_video, gerisayim, times,
                   audio_dur, bg_rest_index>>
    /\ UNCHANGED <<assVars, procVars, auxVars>>

\* lines 224-236
AddLogo ==
    /\ vpc = "logo"
    /\ \E ok \in ValidateOutcomes(logo_path) :
         IF ~ok
         THEN Return(None) /\ UNCHANGED <<cmd, filter_chain, validated>>
         ELSE /\ cmd' = Append(cmd, logo_path)
              /\ filter_chain' = Append(filter_chain,
                                        Step("logo", Len(cmd') - 1, 0, 0, 0, title_duration))
              /\ validated' = validated \cup {logo_path}
              /\ vpc' = "encode"
              /\ UNCHANGED result
    /\ UNCHANGED <<video_effect, background_rest, countdown_video, gerisayim, times,
                   audio_dur, bg_rest_index>>
    /\ UNCHANGED <<assVars, procVars, auxVars>>

\* lines 262-271: subprocess.run(cmd, check=True)
Encode ==
    /\ vpc = "encode"
    /\ \E exit_ok \in BOOLEAN :
         Return(IF exit_ok THEN << "output_path" >> ELSE None)
    /\ encoder_started' = TRUE
    /\ UNCHANGED <<video_effect, background_rest, countdown_video, gerisayim, times,
                   audio_dur, cmd, bg_rest_index, filter_chain, validated, caller>>
    /\ UNCHANGED <<assVars, auxVars>>

\* process_karaoke_video lines 64-77: the value of generate_karaoke_video is
\* dropped and relative_output is returned
ProcessKaraokeVideoReturn ==
    /\ vpc = "returned"
    /\ caller = "generate_karaoke_video"
    /\ caller' = "returned_output"
    /\ UNCHANGED <<videoVars, encoder_started>>
    /\ UNCHANGED <<assVars, auxVars>>

\* lines of a subtitle document handed to the render
DocDialogue(start, end) == DialogueLine(start, end, <<>>, "Line1", NoPosition)
ShortDialogue == [DocDialogue(0, 4000) EXCEPT !.nparts = 4]
BadStartDialogue == [DocDialogue(0, 9000) EXCEPT !.Start = << BadField, Field(0, 0) >>]
DocLines ==
    { OtherLine, ShortDialogue, BadStartDialogue,
      DocDialogue(0, 4000), DocDialogue(4000, 9000), DocDialogue(4500, 9000),
      DocDialogue(6000, 10000), DocDialogue(6500, 10000) }
Docs == UNION { [1..n -> DocLines] : n \in 0..MaxLines }

InitVideo ==
    /\ verses = <<>>
    /\ audio_duration = 60000
    /\ loader_threshold = LoaderThresholdLocal
    /\ pc = "written"
    /\ i = 0
    /\ events = <<>>
    /\ file \in Docs
    /\ vpc = "validate"
    /\ video_effect \in {None, << "background-first.mp4" >>}
    /\ background_rest \in {None, << "background.mp4" >>}
    /\ countdown_video \in {None, << "countdown.mov" >>}
    /\ gerisayim \in {{}, {2}}
    /\ times = None
    /\ audio_dur = None
    /\ cmd = <<>>
    /\ bg_rest_index = None
    /\ filter_chain = <<>>
    /\ validated = {}
    /\ result = None
    /\ encoder_started = FALSE
    /\ caller = "generate_karaoke_video"
    /\ AuxIdle

NextVideo ==
    \/ ValidateInputs \/ ParseCountdown \/ AudioDuration \/ BuildInputs
    \/ BuildFilter \/ AddLogo \/ Encode \/ ProcessKaraokeVideoReturn

SpecVideo == InitVideo /\ [][NextVideo]_vars

\* ------------------------------------------------------------ properties: render
\* positions of the Dialogue lines that have all ten fields
CompleteAt(doc) == { n \in DOMAIN doc : doc[n].dialogue /\ doc[n].nparts >= 10 }
Least(S) == CHOOSE n \in S : \A m \in S : n <= m

\* the window given by the first two lines of S
WindowOf(doc, S) ==
    IF Cardinality(S) >= 2
    THEN LET a == Least(S)
             b == Least(S \ {a})
         IN IF parse_ass_time(doc[b].Start) > parse_ass_time(doc[a].End)
            THEN << parse_ass_time(doc[a].End), parse_ass_time(doc[b].Start) >>
            ELSE None
    ELSE None

\* C5: the window is present iff the document has at least two Dialogue
\* lines and the second one starts strictly after the first one ends; it is
\* then (first end, second start); later lines have no influence.  A Dialogue
\* line is a line "Dialogue: ..." with the ten fields of the Events format.
C5_WindowFromFirstTwoComplete ==
    vpc = "duration" =>
        /\ times = WindowOf(file, CompleteAt(file))
        /\ Cardinality(CompleteAt(file)) >= 2 =>
             LET a == Least(CompleteAt(file))
                 b == Least(CompleteAt(file) \ {a})
             IN /\ (file[a] = DocDialogue(0, 4000) /\ file[b] = DocDialogue(4000, 9000))
                     => times = None
                /\ (file[a] = DocDialogue(0, 4000) /\ file[b] = DocDialogue(6000, 10000))
                     => times = << 4000, 6000 >>

C5_Witness ==
    /\ vpc = "duration" /\ Len(file) = 3
    /\ file[1] = ShortDialogue
    /\ file[2] = DocDialogue(0, 4000) /\ file[3] = DocDialogue(6000, 10000)
    /\ times = << 4000, 6000 >>

FilterBuilt == filter_chain # <<>>
SplitUsed == FilterBuilt /\ times # None /\ background_rest # None

\* C9: when the window exists and a background-rest clip is configured,
\* segment 1 is trimmed to secondEventStart from the background-first input
\* and segment 2 to audioDuration - secondEventStart from the input at which
\* the background-rest clip was added.
C9_SegmentTwoReadsBackgroundRest ==
    SplitUsed =>
        /\ filter_chain[1].op = "trim" /\ filter_chain[1].input = 0
        /\ filter_chain[1].duration = times[2]
        /\ cmd[1] = video_effect
        /\ filter_chain[2].op = "trim"
        /\ filter_chain[2].duration = audio_dur[1] - times[2]
        /\ filter_chain[2].input + 1 \in DOMAIN cmd
        /\ cmd[filter_chain[2].input + 1] = background_rest

Overlays == { n \in DOMAIN filter_chain : filter_chain[n].op = "overlay" }

\* C10: a countdown clip is in the plan only if the window is present, lasts
\* at least 2.0 s and a clip was supplied or found by the rounded duration;
\* in the plan it is shifted by firstEventEnd and enabled during
\* [firstEventEnd, secondEventStart]; a clip that is not found does not stop
\* the render.
C10_PlanState ==
    /\ (cmd # <<>> /\ countdown_video # None) =>
          /\ times # None /\ times[2] - times[1] >= 2000
          /\ cmd[3] = countdown_video
          /\ countdown_video \in validated
    /\ (cmd # <<>> /\ countdown_video = None) =>
          \A n \in DOMAIN cmd : cmd[n][1] \notin {"gerisayim", "countdown.mov"}
    /\ FilterBuilt =>
          IF countdown_video # None
          THEN /\ Cardinality(Overlays) = 1
               /\ \A n \in Overlays :
                    /\ filter_chain[n].input = 2
                    /\ filter_chain[n].offset = times[1]
                    /\ filter_chain[n].from = times[1]
                    /\ filter_chain[n].to = times[2]
          ELSE Overlays = {}

C10_ParseStep ==
    vpc = "parse" =>
        /\ vpc' = "duration"
        /\ countdown_video' # None =>
             /\ times' # None /\ times'[2] - times'[1] >= 2000
             /\ \/ countdown_video # None /\ countdown_video' = countdown_video
                \/ /\ countdown_video = None
                   /\ Round(times'[2] - times'[1]) \in gerisayim
                   /\ countdown_video' = << "gerisayim", Round(times'[2] - times'[1]) >>

C11_FailureSurfaced ==
    caller = "returned_output" => result # None

UsedMedia ==
    { audio_path, ass_path, logo_path }
    \cup ({ cmd[k] : k \in 1..Len(cmd) } \ { ColorSource })

\* C12: the encoder is started only when every medium of the plan (audio,
\* subtitle document, every "-i" input that is a file, the logo) has passed
\* validate_file; a render that ended without starting the encoder has no
\* output.
C12_EncoderAfterValidation ==
    /\ encoder_started => UsedMedia \subseteq validated
    /\ (vpc = "returned" /\ ~encoder_started) => result = None

C12_Witness ==
    /\ encoder_started
    /\ background_rest # None /\ background_rest \in validated
    /\ countdown_video # None /\ countdown_video \in validated
    /\ result # None

\* ------------------------------------------------------------ timestamp codec
MaxHours == 2

\* times fed to the formatters: 0, values below one centisecond, values just
\* below a second, a minute and an hour, multi-hour values
SecondsSet ==
    { h * 3600000 + m * 60000 + sec * 1000 + ms :
        h \in 0..MaxHours, m \in {0, 59}, sec \in {0, 59},
        ms \in {0, 4, 9, 10, 996, 999} }

\* "" and "abc": split(':') gives one field that is no number
EmptyText == << BadField >>

\* texts handed to the parsers
TextSet ==
    { EmptyText,
      << IntField(0), Field(4, 0) >>,
      << IntField(0), IntField(0), IntField(0), IntField(0) >>,
      << BadField, IntField(0), Field(4, 0) >>,
      << IntField(0), BadField, Field(4, 0) >>,
      << IntField(0), IntField(0), BadField >>,
      << IntField(0), IntField(0), NanField >>,
      << Field(1, 50), IntField(0), Field(0, 0) >>,
      << IntField(0), IntField(0), Field(0 - 5, 0) >>,
      << IntField(1), IntField(2), Field(3, 45) >> }

InitCodec ==
    /\ codec_seconds \in SecondsSet
    /\ codec_text \in TextSet
    /\ parsed = None
    /\ cpc = "input"
    /\ verses = <<>> /\ audio_duration = 60000
    /\ loader_threshold = LoaderThresholdLocal
    /\ pc = "idle" /\ i = 0 /\ events = <<>> /\ file = <<>>
    /\ VideoIdle
    /\ FilterIdle /\ StoreIdle /\ EditorIdle /\ SubIdle /\ WorkerIdle
    /\ VisualIdle

CodecFrame ==
    UNCHANGED <<assVars, videoVars, procVars, filterVars, storeVars,
                editorVars, subVars, workerVars, visualVars>>

\* format_time(codec_seconds)
FormatTime ==
    /\ cpc = "input" /\ parsed = None
    /\ codec_text' = format_time(codec_seconds)
    /\ cpc' = "format_time"
    /\ UNCHANGED <<codec_seconds, parsed>>
    /\ CodecFrame

\* seconds_to_ass_time(codec_seconds)
SecondsToAssTime ==
    /\ cpc = "input" /\ parsed = None
    /\ codec_text' = seconds_to_ass_time(codec_seconds)
    /\ cpc' = "seconds_to_ass_time"
    /\ UNCHANGED <<codec_seconds, parsed>>
    /\ CodecFrame

\* both parse_ass_time implementations applied to codec_text; either returns
\* (no exception leaves them)
ParseAssTime ==
    /\ parsed = None
    /\ parsed' = << parse_ass_time(codec_text), editor_parse_ass_time(codec_text) >>
    /\ UNCHANGED <<codec_seconds, codec_text, cpc>>
    /\ CodecFrame

NextCodec == FormatTime \/ SecondsToAssTime \/ ParseAssTime

SpecCodec == InitCodec /\ [][NextCodec]_vars

\* ------------------------------------------------- properties: timestamp codec
Within(a, b, d) == a - b <= d /\ b - a <= d

Malformed(text) ==
    Len(text) # 3 \/ \E k \in 1..Len(text) : text[k].lit \in {"bad", "nan"}

\* C18: for every text that is malformed in one of these ways both
\* parse_ass_time implementations return 0.0.
C18_MalformedGivesZero ==
    (cpc = "input" /\ parsed # None /\ Malformed(codec_text))
        => parsed = << 0, 0 >>

\* ------------------------------------------------------------ lyric filters
MaxSegments == 3

\* texts are sequences of characters
UpperToLower ==
    [ A |-> "a", B |-> "b", C |-> "c", D |-> "d", E |-> "e", F |-> "f",
      G |-> "g", H |-> "h", I |-> "i", J |-> "j", K |-> "k", L |-> "l",
      M |-> "m", N |-> "n", O |-> "o", P |-> "p", Q |-> "q", R |-> "r",
      S |-> "s", T |-> "t", U |-> "u", V |-> "v", W |-> "w", X |-> "x",
      Y |-> "y", Z |-> "z" ]

\* str.lower() on one character
LowerChar(c) == IF c \in DOMAIN UpperToLower THEN UpperToLower[c] ELSE c

Lower(text) == [k \in 1..Len(text) |-> LowerChar(text[k])]

\* ' '.join(word['word'] for word in words)
RECURSIVE JoinText(_)
JoinText(ws) ==
    IF ws = <<>> THEN <<>>
    ELSE IF Len(ws) = 1 THEN ws[1].word
         ELSE ws[1].word \o << " " >> \o JoinText(Tail(ws))

\* filter_lyrics line 78
unwanted_phrases ==
    { << "a", "b", "o", "n", "e", " ", "o", "l" >>,
      << "a", "l", "t", "y", "a", "z", "i" >>,
      << "m", ".", "k", "." >>,
      << "y", "o", "r", "u", "m", " ", "y", "a", "p" >>,
      << "b", "e", "g", "e", "n", " ", "b", "u", "t", "o", "n", "u", "n", "a" >>,
      << "t", "i", "k", "l", "a", "m", "a", "y", "i", " ", "u", "n", "u", "t", "m", "a", "y", "i", "n" >> }

\* filter_early_vocals line 133
noise_patterns ==
    { << "a", "h", "h" >>,
      << "h", "a", "h" >>,
      << "h", "a", "y", "y" >>,
      << "h", "m", "m" >>,
      << "o", "h" >>,
      << "h", "u", "h" >>,
      << "y", "e", "a", "h" >>,
      << "w", "o", "o" >>,
      << "w", "o", "a", "h" >>,
      << "h", "e", "y" >>,
      << "h", "e", "y", "a" >>,
      << "o", "o", "h", "h" >> }

\* a filter_lyrics that compares the text as it is written
LyricsKeepsCased(verse) ==
    ~ \E phrase \in unwanted_phrases : Contains(JoinText(verse.words), phrase)

\* lines 82-94: the verse is kept by filter_lyrics
LyricsKeeps(verse) ==
    ~ \E phrase \in unwanted_phrases : Contains(Lower(JoinText(verse.words)), phrase)

\* lines 120-138: the verse is kept by filter_early_vocals
EarlyKeeps(verse) ==
    IF verse.start < 15000
    THEN /\ ~(Len(verse.words) < 4)
         /\ ~(verse.start < 10000 /\ verse.end - verse.start < 2000)
         /\ ~((\E pattern \in noise_patterns :
                  Contains(Lower(JoinText(verse.words)), pattern))
              /\ verse.start < 10000)
    ELSE TRUE

\* lines 165-176: the verse is kept by filter_short_verses
ShortKeeps(verse) ==
    /\ ~(verse.end - verse.start < 500)
    /\ ~(Len(verse.words) < 2)

\* filter_lyrics: the kept verses, appended in the order of the input
filter_lyrics(vs) == SelectSeq(vs, LyricsKeeps)

\* filter_early_vocals
filter_early_vocals(vs) == SelectSeq(vs, EarlyKeeps)

\* a filter_short_verses that puts each kept verse in front of the list
filter_short_verses_front(vs) ==
    LET kept == SelectSeq(vs, ShortKeeps)
    IN [k \in 1..Len(kept) |-> kept[Len(kept) + 1 - k]]

\* filter_short_verses
filter_short_verses(vs) == SelectSeq(vs, ShortKeeps)

\* words of the transcribed segments
SegmentText ==
    [ la |-> << "l", "a" >>, gel |-> << "g", "e", "l" >>,
      John |-> << "J", "o", "h", "n" >>,
      Abone |-> << "A", "b", "o", "n", "e" >>,
      OL |-> << "O", "L" >>,
      Altyazi |-> << "A", "l", "t", "y", "a", "z", "i" >>,
      M |-> << "M" >>,
      DotK |-> << ".", "K", "." >> ]

\* n words spread over [0, dur]
SegmentWords(texts, dur) ==
    [k \in 1..Len(texts) |->
        Word(texts[k], ((k - 1) * dur) \div Len(texts), (k * dur) \div Len(texts))]

SegmentShape(texts, dur) == [duration |-> dur, words |-> SegmentWords(texts, dur)]

SegmentShapes ==
    { SegmentShape(<< SegmentText.la, SegmentText.gel, SegmentText.la, SegmentText.gel >>, 3000),
      SegmentShape(<< SegmentText.la, SegmentText.gel >>, 1000),
      SegmentShape(<< SegmentText.la, SegmentText.gel, SegmentText.la, SegmentText.gel >>, 1500),
      SegmentShape(<< SegmentText.la, SegmentText.John, SegmentText.la, SegmentText.gel >>, 3000),
      SegmentShape(<< SegmentText.gel >>, 1000),
      SegmentShape(<< SegmentText.la, SegmentText.gel >>, 400),
      SegmentShape(<< SegmentText.la, SegmentText.Abone, SegmentText.OL, SegmentText.gel >>, 3000),
      SegmentShape(<< SegmentText.Altyazi, SegmentText.M, SegmentText.DotK >>, 2000) }

\* segment starts: before 10 s, between 10 s and 15 s, after 15 s
SegmentStarts == << 3000, 8000, 12000, 20000 >>

SegmentAt(shape, t) ==
    [start |-> t, end |-> t + shape.duration, words |-> ShiftWords(shape.words, t)]

\* the segment lists: increasing starts, any shape at each
SegmentLists ==
    UNION { { [k \in 1..n |-> SegmentAt(shapes[k], SegmentStarts[slots[k]])] :
                shapes \in [1..n -> SegmentShapes],
                slots \in { f \in [1..n -> 1..Len(SegmentStarts)] :
                              \A k \in 1..(n - 1) : f[k] < f[k + 1] } } :
            n \in 0..MaxSegments }

InitFilter ==
    /\ segments \in SegmentLists
    /\ filtered = segments
    /\ first_output = None
    /\ fpc = "filter_lyrics"
    /\ verses = <<>> /\ audio_duration = 60000
    /\ loader_threshold = LoaderThresholdLocal
    /\ pc = "idle" /\ i = 0 /\ events = <<>> /\ file = <<>>
    /\ VideoIdle
    /\ CodecIdle /\ StoreIdle /\ EditorIdle /\ SubIdle /\ WorkerIdle
    /\ VisualIdle

FilterFrame ==
    UNCHANGED <<assVars, videoVars, procVars, codecVars, storeVars,
                editorVars, subVars, workerVars, visualVars>>

\* line 289
FilterLyrics ==
    /\ fpc = "filter_lyrics"
    /\ filtered' = filter_lyrics(filtered)
    /\ fpc' = "filter_early_vocals"
    /\ UNCHANGED <<segments, first_output>>
    /\ FilterFrame

\* line 293
FilterEarlyVocals ==
    /\ fpc = "filter_early_vocals"
    /\ filtered' = filter_early_vocals(filtered)
    /\ fpc' = "filter_short_verses"
    /\ UNCHANGED <<segments, first_output>>
    /\ FilterFrame

\* line 297
FilterShortVerses ==
    /\ fpc = "filter_short_verses"
    /\ filtered' = filter_short_verses(filtered)
    /\ fpc' = "filtered"
    /\ UNCHANGED <<segments, first_output>>
    /\ FilterFrame

\* the three passes are run again on their own output
FilterAgain ==
    /\ fpc = "filtered"
    /\ first_output = None
    /\ first_output' = << filtered >>
    /\ fpc' = "filter_lyrics"
    /\ UNCHANGED <<segments, filtered>>
    /\ FilterFrame

\* create_ass_file.py line 261: "Altyazi M .K." as characters
SentinelText ==
    SegmentText.Altyazi \o << " " >> \o SegmentText.M \o << " " >> \o SegmentText.DotK

\* extend_last_event on verses whose words are character sequences
ExtendCallsText(vs, duration) ==
    IF vs = <<>> THEN << ThanksCall(0, duration) >>
    ELSE IF Contains(JoinText(vs[Len(vs)].words), SentinelText)
         THEN << ThanksCall(vs[Len(vs)].start, duration) >>
         ELSE IF vs[Len(vs)].end < duration
              THEN << ThanksCall(vs[Len(vs)].end, duration) >>
              ELSE <<>>

\* the filtered list reaches extend_last_event as it is
ExtendFiltered ==
    /\ fpc = "filtered"
    /\ events' = events \o ExtendCallsText(filtered, audio_duration)
    /\ fpc' = "extended"
    /\ UNCHANGED <<verses, audio_duration, loader_threshold, pc, i, file>>
    /\ UNCHANGED <<segments, filtered, first_output>>
    /\ UNCHANGED <<videoVars, procVars, codecVars, storeVars, editorVars, subVars,
                   workerVars, visualVars>>

NextFilter ==
    FilterLyrics \/ FilterEarlyVocals \/ FilterShortVerses \/ FilterAgain
        \/ ExtendFiltered

SpecFilter == InitFilter /\ [][NextFilter]_vars

\* ------------------------------------------------- properties: lyric filters
\* a is b with some elements left out, in the order of b
RECURSIVE IsSubsequence(_, _)
IsSubsequence(a, b) ==
    IF a = <<>> THEN TRUE
    ELSE IF b = <<>> THEN FALSE
         ELSE IF Head(a) = Head(b) THEN IsSubsequence(Tail(a), Tail(b))
              ELSE IsSubsequence(a, Tail(b))

\* C14: after each of the three passes the list is a subsequence of the input
\* in the original order, and the three passes applied again to their own
\* output return it unchanged.
C14_IdempotentOrderPreserving ==
    /\ IsSubsequence(filtered, segments)
    /\ (fpc = "filtered" /\ first_output # None) => filtered = first_output[1]

C14_Witness ==
    /\ fpc = "filtered" /\ first_output # None
    /\ Len(segments) = 3
    /\ Len(filtered) = 2
    /\ filtered[1].start < 10000

\* ------------------------------------------------------------ timing editor
MaxEdits == 2

\* the working directory exists / is named but does not exist
working_dir_path == << "working_dir" >>
missing_dir_path == << "missing_dir" >>

Absent == [exists |-> FALSE, data |-> <<>>]
Stored(data) == [exists |-> TRUE, data |-> data]

\* "not x" of Python for a list or None
Falsy(x) == x = None \/ x = <<>>

RECURSIVE Flatten(_)
Flatten(seqs) == IF seqs = <<>> THEN <<>> ELSE Head(seqs) \o Flatten(Tail(seqs))

\* lines 169-170: the text of a Dialogue line without tags, as its words
RowText(text) ==
    LET runs == Flatten(text.lines)
    IN [k \in 1..Len(runs) |-> runs[k].txt]

Row(sira, start, end, text) == [sira |-> sira, start |-> start, end |-> end, text |-> text]

\* extract_dialogue_lines: positions of the lines that start with "Dialogue:"
DialogueIndex(doc) ==
    LET IsDialogue(p) == doc[p].dialogue
    IN SelectSeq([p \in 1..Len(doc) |-> p], IsDialogue)

\* lines 150-177: one row for each Dialogue line with ten fields; "Sira" is the
\* position among all Dialogue lines
RowsFromAss(doc) ==
    LET d == DialogueIndex(doc)
        Complete(k) == doc[d[k]].nparts >= 10
        kept == SelectSeq([k \in 1..Len(d) |-> k], Complete)
    IN [j \in 1..Len(kept) |->
          Row(kept[j],
              editor_parse_ass_time(doc[d[kept[j]]].Start),
              editor_parse_ass_time(doc[d[kept[j]]].End),
              RowText(doc[d[kept[j]]].Text))]

\* lines 184-195: round(start, 2), round(end, 2)
RowsFromJson(lyrics) ==
    [k \in 1..Len(lyrics) |->
        Row(k, RoundDiv(lyrics[k].start, 10) * 10, RoundDiv(lyrics[k].end, 10) * 10,
            JoinWords(lyrics[k].words))]

\* create_lyrics_timing_editor: the rows of the table
EditorRows(wd, doc, lyrics) ==
    IF wd = None THEN <<>>
    ELSE LET rows == IF doc # <<>> THEN RowsFromAss(doc) ELSE <<>>
         IN IF rows = <<>> /\ ~Falsy(lyrics) THEN RowsFromJson(lyrics) ELSE rows

\* number of Dialogue lines among the first p lines
Rank(doc, p) == Cardinality({ q \in 1..p : doc[q].dialogue })

\* lines 267-283: row i goes to the i-th Dialogue line, if it has ten fields
UpdatedDoc(doc, tbl) ==
    [p \in 1..Len(doc) |->
        IF doc[p].dialogue /\ Rank(doc, p) <= Len(tbl) /\ doc[p].nparts >= 10
        THEN [doc[p] EXCEPT !.Start = seconds_to_ass_time(tbl[Rank(doc, p)].start),
                            !.End = seconds_to_ass_time(tbl[Rank(doc, p)].end)]
        ELSE doc[p]]

\* a matched verse whose words are moved to the new start and end
UpdatedVerseRetimed(verse, row) ==
    [start |-> row.start, end |-> row.end,
     words |-> [k \in 1..Len(verse.words) |->
                   Word(verse.words[k].word, row.start, row.end)]]

\* lines 309-315: copy of the verse with start and end of the row
UpdatedVerse(verse, row) ==
    [verse EXCEPT !.start = row.start, !.end = row.end]

\* lines 318-327: a verse made from the row alone
NewVerse(row) ==
    [start |-> row.start, end |-> row.end,
     words |-> [k \in 1..Len(row.text) |-> Word(row.text[k], row.start, row.end)]]

\* lines 295-329: one verse for each row of the table
UpdatedLyrics(lyrics, tbl) ==
    [r \in 1..Len(tbl) |->
        IF tbl[r].sira - 1 >= 0 /\ tbl[r].sira - 1 < Len(lyrics)
        THEN UpdatedVerse(lyrics[tbl[r].sira], tbl[r])
        ELSE NewVerse(tbl[r])]

SaveReturn(lyrics, message) == [lyrics |-> lyrics, message |-> message]

EditorVerse(start, end) ==
    [start |-> start, end |-> end,
     words |-> << Word("la", start, start + 500), Word("la", start + 500, end) >>]

\* lyric lists of the project
LyricsSet ==
    { None,
      << EditorVerse(1234, 3000) >>,
      << EditorVerse(1234, 3000), EditorVerse(5006, 7000) >> }

MelodiLine == DialogueLine(5000, 8000, << Plain("MELODI") >>, "Line2", "center")

\* subtitle documents of the project; <<>>: there is no document
EditorDocs ==
    { <<>>,
      << OtherLine >>,
      << OtherLine, DocDialogue(0, 4000) >>,
      << OtherLine, DocDialogue(0, 4000), MelodiLine >>,
      << OtherLine, ShortDialogue, DocDialogue(4000, 9000), OtherLine >>,
      << OtherLine, BadStartDialogue, MelodiLine >> }

InitEditor ==
    /\ working_dir \in {None, working_dir_path, missing_dir_path}
    /\ lyrics_json \in LyricsSet
    /\ IF working_dir = working_dir_path
       THEN /\ file \in EditorDocs
            /\ raw_store = (IF lyrics_json = None THEN Absent ELSE Stored(lyrics_json))
            /\ modified_store \in {Absent, raw_store}
       ELSE /\ file = <<>>
            /\ raw_store = Absent /\ modified_store = Absent
    /\ table = <<>>
    /\ epc = "create"
    /\ edits = 0
    /\ save_return = None
    /\ verses = <<>> /\ audio_duration = 60000
    /\ loader_threshold = LoaderThresholdLocal
    /\ pc = "idle" /\ i = 0 /\ events = <<>>
    /\ VideoIdle
    /\ CodecIdle /\ FilterIdle /\ SubIdle /\ WorkerIdle
    /\ VisualIdle

EditorFrame ==
    /\ UNCHANGED <<verses, audio_duration, loader_threshold, pc, i, events>>
    /\ UNCHANGED <<videoVars, procVars, codecVars, filterVars, subVars, workerVars,
                   visualVars>>

\* create_lyrics_timing_editor(working_dir, lyrics_json)
CreateLyricsTimingEditor ==
    /\ epc = "create"
    /\ table' = EditorRows(working_dir, file, lyrics_json)
    /\ epc' = "editing"
    /\ UNCHANGED <<file, raw_store, modified_store, working_dir, lyrics_json,
                   edits, save_return>>
    /\ EditorFrame

\* the user changes a cell of the table (gr.Dataframe, interactive)
EditCell ==
    /\ epc = "editing"
    /\ edits < MaxEdits
    /\ \E r \in 1..Len(table) :
         \/ table' = [table EXCEPT ![r].start = 500]
         \/ table' = [table EXCEPT ![r].end = 2500]
         \/ \E n \in {1, 3} : table' = [table EXCEPT ![r].sira = n]
    /\ table' # table
    /\ edits' = edits + 1
    /\ UNCHANGED <<file, raw_store, modified_store, working_dir, lyrics_json,
                   epc, save_return>>
    /\ EditorFrame

\* the user removes a row of the table
DeleteRow ==
    /\ epc = "editing"
    /\ edits < MaxEdits
    /\ \E r \in 1..Len(table) :
         table' = [k \in 1..(Len(table) - 1) |-> IF k < r THEN table[k] ELSE table[k + 1]]
    /\ edits' = edits + 1
    /\ UNCHANGED <<file, raw_store, modified_store, working_dir, lyrics_json,
                   epc, save_return>>
    /\ EditorFrame

\* the user adds a row to the table
AddRow ==
    /\ epc = "editing"
    /\ edits < MaxEdits
    /\ table' = Append(table, Row(Len(table) + 1, 9000, 9500, << "la" >>))
    /\ edits' = edits + 1
    /\ UNCHANGED <<file, raw_store, modified_store, working_dir, lyrics_json,
                   epc, save_return>>
    /\ EditorFrame

\* save_timing_changes(df, working_dir, lyrics_json); ass_ok: write_ass_file
\* succeeded; json: which of the two json.dump calls raised, if any
SaveTimingChanges ==
    /\ epc = "editing"
    /\ epc' = "saved"
    /\ IF working_dir = None \/ table = <<>>
       THEN /\ save_return' = SaveReturn(lyrics_json, "no_data")
            /\ UNCHANGED <<file, raw_store, modified_store>>
       ELSE IF working_dir = missing_dir_path
       THEN /\ save_return' = SaveReturn(lyrics_json, "no_directory")
            /\ UNCHANGED <<file, raw_store, modified_store>>
       ELSE /\ \E ass_ok \in BOOLEAN :
                 file' = IF file # <<>> /\ ass_ok THEN UpdatedDoc(file, table) ELSE file
            /\ IF ~Falsy(lyrics_json)
               THEN \E json \in {"ok", "raw_fails", "modified_fails"} :
                      LET updated_lyrics == UpdatedLyrics(lyrics_json, table)
                      IN /\ raw_store' = IF json = "raw_fails" THEN raw_store
                                         ELSE Stored(updated_lyrics)
                         /\ modified_store' = IF json = "ok" THEN Stored(updated_lyrics)
                                              ELSE modified_store
                         /\ save_return' = IF json = "ok"
                                           THEN SaveReturn(updated_lyrics, "saved")
                                           ELSE SaveReturn(lyrics_json, "json_error")
               ELSE /\ save_return' = SaveReturn(lyrics_json, "no_json")
                    /\ UNCHANGED <<raw_store, modified_store>>
    /\ UNCHANGED <<working_dir, lyrics_json, table, edits>>
    /\ EditorFrame

NextEditor ==
    CreateLyricsTimingEditor \/ EditCell \/ DeleteRow \/ AddRow \/ SaveTimingChanges

SpecEditor == InitEditor /\ [][NextEditor]_vars

\* ------------------------------------------------- properties: timing editor
SameButTimes(after, before) ==
    after = [before EXCEPT !.Start = after.Start, !.End = after.End]

SameButSpan(after, before) ==
    after = [before EXCEPT !.start = after.start, !.end = after.end]

MatchedVersesKept(store_after, store_before) ==
    store_after # store_before =>
        \A r \in 1..Len(store_after.data) :
            (r <= Len(table) /\ table[r].sira \in 1..Len(lyrics_json))
                => SameButSpan(store_after.data[r], lyrics_json[table[r].sira])

C15_SaveStep ==
    (epc = "editing" /\ epc' = "saved") =>
        /\ Len(file') = Len(file)
        /\ \A p \in 1..Len(file) :
             /\ SameButTimes(file'[p], file[p])
             /\ file'[p] # file[p] => (file[p].dialogue /\ Rank(file, p) <= Len(table))
        /\ MatchedVersesKept(raw_store', raw_store)
        /\ MatchedVersesKept(modified_store', modified_store)

\* C15: a save leaves the number and order of the lines of the subtitle
\* document, every line that is no matched Dialogue line, and every field but
\* start and end of the matched Dialogue lines as they were; every stored
\* verse that was matched to a verse of lyrics_json is that verse with only
\* start and end replaced (same words, same word times).
C15_OnlyTimesChange == [][C15_SaveStep]_vars

C15_Witness ==
    /\ epc = "saved" /\ save_return.message = "saved"
    /\ Len(file) >= 3
    /\ file[2].Start = seconds_to_ass_time(500)
    /\ file[3] = MelodiLine
    /\ modified_store.data[1].start = 500
    /\ modified_store.data[1].words = lyrics_json[1].words

\* C16: a save that writes the JSON stores leaves no stored list shorter than
\* the list of verses there was before.
C16_NoVerseDeleted ==
    (epc = "saved" /\ save_return # None /\ save_return.message = "saved")
        => /\ Len(raw_store.data) >= Len(lyrics_json)
           /\ Len(modified_store.data) >= Len(lyrics_json)

\* ------------------------------------------------------------ process_karaoke_subtitles
\* verse lists of one or two verses whose first verse starts at t
StoredLists(t) ==
    UNION { { BuildVerses(t, shapes, [k \in 1..(n - 1) |-> LoaderThresholdLocal], 1) :
                shapes \in [1..n -> VerseShapes] } : n \in 1..2 }

\* a document left in the directory by an earlier run
OldDoc == << OtherLine, DocDialogue(0, 4000) >>

InitSubtitles ==
    /\ raw_store \in {Absent} \cup { Stored(l) : l \in StoredLists(0) }
    /\ modified_store \in {Absent} \cup { Stored(l) : l \in StoredLists(1000) }
    /\ override \in BOOLEAN
    /\ file \in {<<>>, OldDoc}
    /\ spc = "process_karaoke_subtitles"
    /\ lyrics_file = None
    /\ sub_audio = <<>>
    /\ sub_result = None
    /\ verses = <<>> /\ audio_duration = 0
    /\ loader_threshold \in ThresholdSet
    /\ pc = "idle" /\ i = 0 /\ events = <<>>
    /\ VideoIdle
    /\ CodecIdle /\ FilterIdle /\ EditorIdle /\ WorkerIdle
    /\ VisualIdle

SubFrame ==
    /\ UNCHANGED <<loader_threshold, i, events>>
    /\ UNCHANGED <<videoVars, procVars, codecVars, filterVars, storeVars,
                   editorVars, workerVars,
                   visualVars>>

Raise(exception) ==
    /\ spc' = "raised"
    /\ sub_result' = << exception >>

\* lines 48-54: an existing document is removed when override is set
RemoveExisting ==
    /\ spc = "process_karaoke_subtitles"
    /\ \E unlink_ok \in BOOLEAN :
         file' = IF file # <<>> /\ override /\ unlink_ok THEN <<>> ELSE file
    /\ spc' = "select"
    /\ UNCHANGED <<override, lyrics_file, sub_audio, sub_result, verses,
                   audio_duration, pc>>
    /\ SubFrame

\* a selection that prefers raw_lyrics.json
LyricsFileRawFirst ==
    IF raw_store.exists THEN "raw_lyrics.json" ELSE "modified_lyrics.json"

\* lines 70-75
LyricsFile ==
    IF modified_store.exists THEN "modified_lyrics.json" ELSE "raw_lyrics.json"

StoreOf(name) == IF name = "modified_lyrics.json" THEN modified_store ELSE raw_store

\* lines 69-81
SelectLyricsFile ==
    /\ spc = "select"
    /\ lyrics_file' = LyricsFile
    /\ IF ~StoreOf(lyrics_file').exists
       THEN Raise("FileNotFoundError")
       ELSE spc' = "load" /\ UNCHANGED sub_result
    /\ UNCHANGED <<override, sub_audio, verses, audio_duration, pc, file>>
    /\ SubFrame

\* lines 83-103: metadata, verses_data, audio duration
LoadInputs ==
    /\ spc = "load"
    /\ \E metadata_ok \in BOOLEAN, d \in {None, << 3000 >>, << 60000 >>} :
         IF ~metadata_ok
         THEN /\ Raise("load_json")
              /\ UNCHANGED <<verses, sub_audio, audio_duration, pc>>
         ELSE /\ verses' = StoreOf(lyrics_file).data
              /\ sub_audio' = << d >>
              /\ IF d = None
                 THEN Raise("ValueError") /\ UNCHANGED <<audio_duration, pc>>
                 ELSE /\ audio_duration' = d[1]
                      /\ pc' = "create_ass_file"
                      /\ spc' = "create_ass_file"
                      /\ UNCHANGED sub_result
    /\ UNCHANGED <<override, lyrics_file, file>>
    /\ SubFrame

\* line 138
ReturnOutputFile ==
    /\ spc = "create_ass_file"
    /\ pc = "written"
    /\ spc' = "returned"
    /\ sub_result' = << "output_file" >>
    /\ UNCHANGED <<override, lyrics_file, sub_audio, verses, audio_duration, pc, file>>
    /\ SubFrame

NextSubtitles ==
    \/ RemoveExisting \/ SelectLyricsFile \/ LoadInputs
    \/ CreateAssFile \/ ScrollStep \/ ExtendLastEvent
    \/ ReturnOutputFile

SpecSubtitles == InitSubtitles /\ [][NextSubtitles]_vars

\* ------------------------------------------------- properties: lyric source
Generating == spc \in {"create_ass_file", "returned"}

\* C17: the document is generated from modified_lyrics.json whenever it
\* exists and from raw_lyrics.json only when it does not; when neither exists,
\* or the audio duration is not extracted, the call raises and no document
\* has been written.
C17_LyricSource ==
    /\ Generating =>
         /\ verses = (IF modified_store.exists THEN modified_store.data
                      ELSE raw_store.data)
         /\ lyrics_file = "raw_lyrics.json" => ~modified_store.exists
         /\ sub_audio # <<>> /\ sub_audio # << None >>
    /\ (~modified_store.exists /\ ~raw_store.exists) =>
         spc \in {"process_karaoke_subtitles", "select", "raised"}
    /\ sub_audio = << None >> => spc = "raised"
    /\ spc = "raised" =>
         /\ sub_result \in {<< "FileNotFoundError" >>, << "ValueError" >>, << "load_json" >>}
         /\ pc = "idle" /\ events = <<>>
         /\ file \in {<<>>, OldDoc}
    /\ pc # "idle" => Generating

C17_Witness ==
    /\ spc = "returned"
    /\ modified_store.exists /\ raw_store.exists
    /\ lyrics_file = "modified_lyrics.json"
    /\ verses = modified_store.data
    /\ Len(file) > 4

\* ------------------------------------------------------------ PopupManager
MaxWorkers == 3

\* the long-running operations handed to run_async_with_popups and the
\* working directories they are given
Operations == {"subtitles", "render"}
WorkingDirs == {"project_a", "project_b"}

Worker(operation_name, dir, state) ==
    [operation_name |-> operation_name, working_dir |-> dir, state |-> state]

InitWorkers ==
    /\ threads = <<>>
    /\ verses = <<>> /\ audio_duration = 60000
    /\ loader_threshold = LoaderThresholdLocal
    /\ pc = "idle" /\ i = 0 /\ events = <<>> /\ file = <<>>
    /\ VideoIdle
    /\ CodecIdle /\ FilterIdle /\ StoreIdle /\ EditorIdle /\ SubIdle
    /\ VisualIdle

WorkerFrame ==
    UNCHANGED <<assVars, videoVars, procVars, codecVars, filterVars, storeVars,
                editorVars, subVars, visualVars>>

\* lines 76-92: start popup, then a new daemon thread is created and started,
\* whatever threads are running
RunAsyncWithPopups ==
    /\ Len(threads) < MaxWorkers
    /\ \E operation_name \in Operations, dir \in WorkingDirs :
         threads' = Append(threads, Worker(operation_name, dir, "running"))
    /\ WorkerFrame

\* lines 80-83: operation_func returned
WorkerCompletes ==
    /\ \E t \in 1..Len(threads) :
         /\ threads[t].state = "running"
         /\ threads' = [threads EXCEPT ![t].state = "completed"]
    /\ WorkerFrame

\* lines 84-87: operation_func raised
WorkerFails ==
    /\ \E t \in 1..Len(threads) :
         /\ threads[t].state = "running"
         /\ threads' = [threads EXCEPT ![t].state = "failed"]
    /\ WorkerFrame

NextWorkers == RunAsyncWithPopups \/ WorkerCompletes \/ WorkerFails

SpecWorkers == InitWorkers /\ [][NextWorkers]_vars

\* ------------------------------------------------- properties: PopupManager
Running(t) == threads[t].state = "running"

\* C19: no two workers are running at the same time on the same working
\* directory.
C19_OneWorkerPerDirectory ==
    \A a, b \in 1..Len(threads) :
        (a # b /\ Running(a) /\ Running(b))
            => threads[a].working_dir # threads[b].working_dir

\* ------------------------------------------------------------ longer verse lists
MaxScanVerses == 4

\* the verse shapes without the sentinel verse
ScanShapes == { s \in VerseShapes : ~Contains(JoinWords(s.words), SentinelPhrase) }

ScanGaps == { g \in GapSet : g <= LoaderThresholdLocal }

\* create_ass_file on lists long enough for a merged pair to follow a merged
\* pair
InitScan ==
    /\ \E n \in 0..MaxScanVerses :
         \E shapes \in [1..n -> ScanShapes] :
           \E gaps \in [1..(n - 1) -> ScanGaps] :
             verses = BuildVerses(0, shapes, gaps, 1)
    /\ audio_duration = 60000
    /\ loader_threshold = LoaderThresholdLocal
    /\ pc = "create_ass_file"
    /\ i = 0
    /\ events = <<>>
    /\ file = <<>>
    /\ VideoIdle
    /\ AuxIdle

SpecScan == InitScan /\ [][NextAss]_vars

\* ------------------------------------------------- properties: loader decision
\* C20: every lyric event, merged or single, whose upper (or only) verse has
\* index k carries a loader iff k = 0 or verse[k].start - verse[k-1].end is at
\* least the threshold.
C20_LoaderRule ==
    \A n \in DOMAIN events :
        Lyric(events[n]) =>
            (events[n].add_loader <=>
                (events[n].idx = 0
                 \/ V(events[n].idx).start - V(events[n].idx - 1).end
                        >= LoaderThresholdLocal))

\* ------------------------------------------------- properties: displayed start
\* C21: a lyric event of upper (or only) verse k starts at
\* max(0, verse[k].start - 2.0) with a loader and at verse[k].start without;
\* it never starts before 0; no step of the scan changes the verses.
C21_StartState ==
    \A n \in DOMAIN events :
        Lyric(events[n]) =>
            /\ events[n].start =
                 (IF events[n].add_loader
                  THEN (IF V(events[n].idx).start - 2000 > 0
                        THEN V(events[n].idx).start - 2000 ELSE 0)
                  ELSE V(events[n].idx).start)
            /\ events[n].start >= 0
            /\ file[n + 3].Start = format_time(events[n].start)

C21_DisplayedStart == [] C21_StartState /\ [][verses' = verses]_vars

C21_Witness ==
    /\ Written /\ NVerses = 3
    /\ \E n \in DOMAIN events :
         /\ Lyric(events[n]) /\ events[n].idx = 0 /\ events[n].add_loader
         /\ V(0).start = 1000 /\ events[n].start = 0
    /\ \E n \in DOMAIN events :
         /\ Lyric(events[n]) /\ events[n].idx > 0 /\ ~events[n].add_loader
         /\ events[n].start = V(events[n].idx).start

\* ------------------------------------------------- properties: scan partition
\* the scan runs to its end: the interpreter always takes the next step
FairScan == SpecScan /\ WF_vars(NextAss)

C22_State ==
    pc \in {"scroll", "written"} =>
        /\ i <= NVerses
        /\ \A k \in 0..(NVerses - 1) :
             Cardinality(EventsOf(k)) = (IF k < i THEN 1 ELSE 0)
        /\ \A n, m \in DOMAIN events :
             (Lyric(events[n]) /\ Lyric(events[m]) /\ n < m)
                 => events[n].idx < events[m].idx
        /\ \A n \in DOMAIN events :
             /\ events[n].kind = "merged" => events[n].idx + 1 < NVerses
             /\ events[n].kind = "single" =>
                  /\ events[n].idx < NVerses
                  /\ \/ events[n].idx = NVerses - 1
                     \/ Gap(events[n].idx) >= 5000
                  /\ events[n].position = "lower_center"
                  /\ file[n + 3].Text.an = "an8"

\* C22: the scan ends, and then every verse is shown by exactly one lyric
\* event (upper line, lower line, or alone), lyric events are in verse order,
\* and a verse is alone only if it is the last verse or the gap to the next
\* verse is at least 5.0 s, so a single-verse event is always lower-centered.
C22_ScanPartition ==
    /\ [] C22_State
    /\ <> Written
    /\ [] (Written => i >= NVerses)

C22_Witness ==
    /\ Written /\ NVerses = 4
    /\ Cardinality(MergedOf(0)) = 1
    /\ \E n \in DOMAIN events : events[n].kind = "single" /\ events[n].idx = 2
    /\ \E n \in DOMAIN events : events[n].kind = "single" /\ events[n].idx = 3

\* ------------------------------------------------- properties: loader window
\* C23: in every event with a loader the loader's highlight (its \kf, in
\* centiseconds, counted from the displayed start) ends at the upper verse's
\* start.
C23_LoaderEndsAtVerseStart ==
    \A n \in DOMAIN events :
        (Lyric(events[n]) /\ events[n].add_loader) =>
            events[n].start + Head(events[n].lines[1]).kf * 10
                = V(events[n].idx).start

\* ------------------------------------------------- properties: event order
\* C24: each Dialogue written by write_scrolling_lyrics_events (lyric or
\* filler) is displayed no earlier than the end of the Dialogue the compositor
\* wrote immediately before it.
C24_NoOverlap ==
    \A n \in 2..Len(CompositorCalls) :
        CompositorCalls[n].start >= CompositorCalls[n - 1].end

\* ------------------------------------------------- properties: countdown window
\* C25: in a freshly written document the first Dialogue is the title event
\* [0, 4] and there are at least two Dialogue lines; with at least one verse
\* parse_countdown_times reads back (4, s), s being max(0, verse[0].start - 2)
\* truncated to centiseconds, exactly when s > 4, and nothing otherwise; with
\* no verse it reads back nothing.
TruncatedFirstStart == (Max(0, V(0).start - LoaderLead) \div 10) * 10

C25_FreshWindow ==
    Written =>
        /\ Len(DialogueParts(file)) >= 2
        /\ DialogueParts(file)[1] = LineOf(TitleCall)
        /\ parse_ass_time(DialogueParts(file)[1].Start) = 0
        /\ parse_ass_time(DialogueParts(file)[1].End) = 4000
        /\ NVerses >= 1 =>
             parse_countdown_times(file) =
                 (IF TruncatedFirstStart > 4000
                  THEN << 4000, TruncatedFirstStart >> ELSE None)
        /\ NVerses = 0 => parse_countdown_times(file) = None

C25_Witness ==
    /\ Written /\ NVerses >= 1 /\ V(0).start = 6005
    /\ events[2].start = 4005
    /\ parse_countdown_times(file) = None

\* ------------------------------------------------- properties: unedited save
Spans(lyrics) == [k \in 1..Len(lyrics) |-> << lyrics[k].start, lyrics[k].end >>]

C26_SaveStep ==
    (/\ epc = "editing" /\ epc' = "saved"
     /\ edits = 0 /\ file # <<>> /\ table # <<>> /\ table = RowsFromAss(file)) =>
        /\ file' = file
        /\ raw_store'.exists => Spans(raw_store'.data) = Spans(lyrics_json)
        /\ modified_store'.exists => Spans(modified_store'.data) = Spans(lyrics_json)

\* C26: a save of a table that was filled from the subtitle document and not
\* edited leaves start and end of every stored verse and every line of the
\* subtitle document as they were.
C26_UneditedSaveNoOp == [][C26_SaveStep]_vars

\* ------------------------------------------------- properties: sentinel verse
HasSentinel(verse) == Contains(JoinText(verse.words), SentinelText)

\* C27: no verse that filter_lyrics returns contains the sentinel phrase, and
\* extend_last_event on the filtered list starts the trailing event at the
\* last verse's end (at 0 for an empty list).
C27_SentinelFilteredOut ==
    /\ (fpc # "filter_lyrics" \/ first_output # None) =>
           \A k \in 1..Len(filtered) : ~HasSentinel(filtered[k])
    /\ fpc = "extended" =>
           events = (IF filtered = <<>> THEN << ThanksCall(0, audio_duration) >>
                     ELSE << ThanksCall(filtered[Len(filtered)].end, audio_duration) >>)

C27_Witness ==
    /\ fpc = "extended"
    /\ Len(segments) = 2 /\ HasSentinel(segments[2])
    /\ Len(filtered) = 1
    /\ events[1].start = segments[1].end

\* ------------------------------------------------- properties: failed generation
\* a call that finds neither lyric file: it raises FileNotFoundError
NoLyricFile == ~modified_store.exists /\ ~raw_store.exists

C28_Step ==
    (spc \in {"process_karaoke_subtitles", "select"} /\ NoLyricFile) =>
        /\ file' = file
        /\ spc' = "raised" => sub_result' = << "FileNotFoundError" >>

\* C28: a call of process_karaoke_subtitles that raises for a missing
\* prerequisite leaves the document that was in the working directory as it
\* was, whatever override is: no step of a call that finds no lyric file
\* changes the document.
C28_DocumentKeptOnFailure == [][C28_Step]_vars

\* ------------------------------------------------------------ AssVisualEditor
MaxStarts == 4

\* the attributes of the editor object and what they stand for outside it
EditorState(srv, dir, dirs, n) ==
    [server |-> srv, temp_dir |-> dir, temp_dirs |-> dirs, alive |-> n]

\* stop_server
stop_server(st) ==
    IF st.server # None
    THEN IF st.temp_dir # None /\ st.temp_dir[1] \in st.temp_dirs
         THEN EditorState(None, None, st.temp_dirs \ {st.temp_dir[1]}, st.alive - 1)
         ELSE EditorState(None, st.temp_dir, st.temp_dirs, st.alive - 1)
    ELSE st

\* _start_server; n: the directory tempfile.mkdtemp makes; html_exists:
\* subtitle_editor.html is there; bind_ok: TCPServer binds the port
start_server(st, n, html_exists, bind_ok) ==
    LET stopped == stop_server(st)
        made == EditorState(stopped.server, << n >>, stopped.temp_dirs \cup {n},
                            stopped.alive)
    IN IF html_exists /\ bind_ok
       THEN [st |-> EditorState(<< "TCPServer" >>, made.temp_dir, made.temp_dirs,
                                made.alive + 1),
             ok |-> TRUE]
       ELSE [st |-> made, ok |-> FALSE]

Self == EditorState(server, temp_dir, temp_dirs, alive)

SetSelf(st) ==
    /\ server' = st.server
    /\ temp_dir' = st.temp_dir
    /\ temp_dirs' = st.temp_dirs
    /\ alive' = st.alive

InitVisual ==
    /\ VisualIdle
    /\ threads = <<>>
    /\ verses = <<>> /\ audio_duration = 60000
    /\ loader_threshold = LoaderThresholdLocal
    /\ pc = "idle" /\ i = 0 /\ events = <<>> /\ file = <<>>
    /\ VideoIdle
    /\ CodecIdle /\ FilterIdle /\ StoreIdle /\ EditorIdle /\ SubIdle

VisualFrame ==
    UNCHANGED <<assVars, videoVars, procVars, codecVars, filterVars, storeVars,
                editorVars, subVars, workerVars>>

Callable == apc \in {"idle", "edit_returned"}

\* edit_ass_file lines 123-137: up to the wait
EditAssFile ==
    /\ Callable
    /\ \E ass_exists \in BOOLEAN :
         IF ~ass_exists
         THEN /\ apc' = "edit_returned" /\ edit_return' = << FALSE >>
              /\ UNCHANGED <<server, temp_dir, temp_dirs, alive, starts>>
         ELSE IF server = None
         THEN /\ starts < MaxStarts
              /\ starts' = starts + 1
              /\ \E html_exists \in BOOLEAN, bind_ok \in BOOLEAN :
                   LET r == start_server(Self, starts + 1, html_exists, bind_ok)
                   IN /\ SetSelf(r.st)
                      /\ IF r.ok
                         THEN apc' = "waiting" /\ UNCHANGED edit_return
                         ELSE apc' = "edit_returned" /\ edit_return' = << FALSE >>
         ELSE /\ apc' = "waiting"
              /\ UNCHANGED <<server, temp_dir, temp_dirs, alive, starts, edit_return>>
    /\ VisualFrame

\* edit_ass_file lines 147-157: the wait ends or raises, the server is stopped
EditWait ==
    /\ apc = "waiting"
    /\ SetSelf(stop_server(Self))
    /\ \E raised \in BOOLEAN : edit_return' = << ~raised >>
    /\ apc' = "edit_returned"
    /\ UNCHANGED starts
    /\ VisualFrame

\* editor._start_server() called from outside (line 191)
StartServerCall ==
    /\ Callable
    /\ starts < MaxStarts
    /\ starts' = starts + 1
    /\ \E html_exists \in BOOLEAN, bind_ok \in BOOLEAN :
         LET r == start_server(Self, starts + 1, html_exists, bind_ok)
         IN SetSelf(r.st) /\ edit_return' = << r.ok >>
    /\ apc' = "idle"
    /\ VisualFrame

\* editor.stop_server() called from outside (line 212)
StopServerCall ==
    /\ Callable
    /\ server # None
    /\ SetSelf(stop_server(Self))
    /\ apc' = "idle"
    /\ UNCHANGED <<starts, edit_return>>
    /\ VisualFrame

NextVisual == EditAssFile \/ EditWait \/ StartServerCall \/ StopServerCall

SpecVisual == InitVisual /\ [][NextVisual]_vars

\* ------------------------------------------------- properties: AssVisualEditor
\* C29: when edit_ass_file has returned no server is left (self.server is
\* None, nothing listens) and no temporary directory made by _start_server is
\* left on disk; at no time do two servers of the editor listen.
C29_EditorReleasesResources ==
    /\ apc = "edit_returned" => (server = None /\ alive = 0 /\ temp_dirs = {})
    /\ alive <= 1

\* ------------------------------------------------- properties: stores after a save
C30_SaveStep ==
    (epc = "editing" /\ epc' = "saved") =>
        IF save_return'.message = "saved"
        THEN /\ raw_store' = Stored(save_return'.lyrics)
             /\ modified_store' = Stored(save_return'.lyrics)
        ELSE /\ save_return'.lyrics = lyrics_json
             /\ raw_store' = raw_store
             /\ modified_store' = modified_store

\* C30: a save that reports success leaves the returned verse list in both
\* raw_lyrics.json and modified_lyrics.json; a save that reports a failure or
\* returns early returns the original lyric data and leaves both stores as
\* they were.
C30_StoresAgree == [][C30_SaveStep]_vars
====
